---- MODULE Spec2Model ----
(***************************************************************************)
(* Model of the long-polling Telegram client of src/main.rs: the listen    *)
(* loop (get_updates, spawn, join), the per-update task process_update     *)
(* (get_file, send_photo) and the gateway helper request_to_json.          *)
(* The remote side is the environment: every response the code can parse   *)
(* or fail on is an input of the action that receives it.                  *)
(***************************************************************************)
EXTENDS Integers, Sequences, FiniteSets, TLC

\* ---------------------------------------------------------------- bounds
MaxId == 2          \* update identifiers the remote side hands out: 1..MaxId
MaxBatch == 2       \* longest batch of one getUpdates response

\* ------------------------------------------------------------- data model
Ids == 1..MaxId

\* The JSON shapes of an update that process_update tells apart.
Shapes == {"NoMessage", "NoPhoto", "EmptyPhoto", "NoChatId", "NoMessageId", "Photo"}

Updates == [update_id : Ids, shape : Shapes]

RECURSIVE SeqsUpTo(_, _)
SeqsUpTo(S, n) ==
    IF n = 0 THEN {<<>>}
    ELSE LET shorter == SeqsUpTo(S, n - 1)
         IN  shorter \cup {Append(s, x) : s \in {t \in shorter : Len(t) = n - 1}, x \in S}

Batches == SeqsUpTo(Updates, MaxBatch)

\* What one HTTP exchange of request_to_json can come back with.
RespKinds == {"SendErr", "StatusErr", "NotJson", "NotObject", "NoOkFlag",
              "OkFalse", "OkNoResult", "Ok"}

\* What the plain download of get_file (line 94) can come back with.
DownloadKinds == {"SendErr", "StatusErr", "BodyErr", "Ok"}

\* Variant: the "ok" flag is not looked at.
RequestToJsonIgnoreOk(kind) ==
    CASE kind \in {"SendErr", "StatusErr", "NotJson"} -> "Err"
      [] kind \in {"NotObject", "NoOkFlag", "OkNoResult"} -> "Panic"
      [] OTHER -> "Ok"

\* request_to_json: `?` on send, error_for_status and json give Err; a body
\* that is not an object, an "ok" that is no boolean and a missing "result"
\* panic; "ok": false gives Err whatever else the body carries.
RequestToJson(kind) ==
    CASE kind \in {"SendErr", "StatusErr", "NotJson"} -> "Err"
      [] kind \in {"NotObject", "NoOkFlag"} -> "Panic"
      [] kind = "OkFalse" -> "Err"
      [] kind = "OkNoResult" -> "Panic"
      [] OTHER -> "Ok"

\* Variants of the offset update: from the first update, from the number of
\* updates, and moving on an empty batch.
NextOffsetFirst(off, batch) ==
    IF Len(batch) > 0 THEN batch[1].update_id + 1 ELSE off

NextOffsetCount(off, batch) == off + Len(batch)

\* Variant: the offset is never moved.
NextOffsetStay(off, batch) == off

NextOffsetBump(off, batch) ==
    IF Len(batch) > 0 THEN batch[Len(batch)].update_id + 1 ELSE off + 1

\* get_updates, lines 77-79: the offset after a batch was received.
NextOffset(off, batch) ==
    IF Len(batch) > 0 THEN batch[Len(batch)].update_id + 1 ELSE off

\* get_updates as a whole: the outcome the caller sees.
\* resultIsArray / lastHasId: the unwraps of lines 77 and 78.
GetUpdatesOutcome(kind, resultIsArray, lastHasId, batch) ==
    CASE RequestToJson(kind) = "Err" -> "Err"
      [] RequestToJson(kind) = "Panic" -> "Panic"
      [] OTHER -> IF ~resultIsArray THEN "Panic"
                  ELSE IF Len(batch) > 0 /\ ~lastHasId THEN "Panic"
                  ELSE "Ok"

\* Variant: the photo list is not checked for.
ProcessUpdateStartNoCheck(shape) ==
    CASE shape = "NoMessage" -> "Ok"
      [] shape \in {"NoChatId", "NoMessageId", "EmptyPhoto"} -> "Panic"
      [] OTHER -> "GetFile"

\* process_update, lines 113-119: what the task does before its first call.
ProcessUpdateStart(shape) ==
    CASE shape = "NoMessage" -> "Ok"
      [] shape = "NoPhoto" -> "Ok"
      [] shape \in {"NoChatId", "NoMessageId", "EmptyPhoto"} -> "Panic"
      [] OTHER -> "GetFile"

\* get_file, lines 84-89: the resolve call and the unwraps on its result.
GetFileResolve(kind, hasFilePath) ==
    CASE RequestToJson(kind) = "Err" -> "Err"
      [] RequestToJson(kind) = "Panic" -> "Panic"
      [] OTHER -> IF hasFilePath THEN "Ok" ELSE "Panic"

\* get_file, line 94: the download.
GetFileDownload(kind) == IF kind = "Ok" THEN "Ok" ELSE "Err"

\* ------------------------------------------------------------------ state
VARIABLES
    tokenSet,     \* TELEGRAM_TOKEN is in the environment
    buildOk,      \* reqwest's builder succeeds
    pc,           \* where listen is: "new", "idle", "polling", "joining",
                  \* "panicked" (listen's task died), "exited" (main unwound)
    offset,       \* telegram_client.offset of the loop's client
    tasks,        \* the runtime's spawned tasks of the latest batch (and any
                  \* still running from before), in spawn order
    joins,        \* the JoinHandles of the current round: indices into tasks
    joinIdx,      \* position of the for loop over joins
    roundLog,     \* error! entries since the latest getUpdates response
    haltCause,    \* why listen panicked: "none", "new", "poll", "join"
    \* history of the polling sequence
    sent,         \* offset sent in the latest getUpdates call
    lastKind,     \* what the latest getUpdates exchange came back with
    lastOutcome,  \* outcome of the latest answered round
    lastIds,      \* identifiers the latest getUpdates body carried
    maxSeen,      \* highest identifier received so far, 0 when none
    inOrder,      \* every batch so far was increasing and at or above its cursor
    allAbove,     \* every batch so far had no identifier below its cursor
    dispatched    \* the identifiers handed to a task so far

vars == <<tokenSet, buildOk, pc, offset, tasks, joins, joinIdx, roundLog,
          haltCause, sent, lastKind, lastOutcome, lastIds, maxSeen, inOrder,
          allAbove, dispatched>>

loopVars == <<pc, offset, joins, joinIdx, roundLog, haltCause>>
histVars == <<sent, lastKind, lastOutcome, lastIds, maxSeen, inOrder, allAbove,
             dispatched>>
envVars == <<tokenSet, buildOk>>

Running == {"spawned", "resolve", "download", "submit"}
Finished == {"ok", "err", "panic"}

IdsOf(batch) == [i \in 1..Len(batch) |-> batch[i].update_id]

MaxOf(ids) == IF Len(ids) = 0 THEN 0
              ELSE CHOOSE m \in {ids[i] : i \in 1..Len(ids)} :
                       \A i \in 1..Len(ids) : ids[i] <= m

Larger(a, b) == IF a >= b THEN a ELSE b

\* No identifier of the batch is below the cursor.
AtOrAbove(cursor, ids) == \A i \in 1..Len(ids) : ids[i] >= cursor

\* The batch is what the protocol promises for the cursor: identifiers
\* strictly increasing and none below the cursor.
Conforming(cursor, ids) ==
    /\ \A i \in 1..Len(ids) : ids[i] >= cursor
    /\ \A i \in 1..Len(ids) - 1 : ids[i] < ids[i + 1]

\* What a photo update carries (lines 115-119): the update with identifier n
\* comes from chat n, is message n and names file n; the remote store holds
\* one content per file (lines 84-95).
ChatId(update) == <<"chat", update.update_id>>
MessageId(update) == <<"message", update.update_id>>
FileId(update) == <<"file", update.update_id>>
StoredFile(file_id) == <<"bytes", file_id[2]>>

\* A local not yet bound, a call not made.
NoValue == <<>>

\* error!("{}", error) of line 133 and of line 148 (for the k-th update).
PollEntry == <<"poll", 0>>
TaskEntry(k) == <<"task", k>>

\* tokio::spawn(process_update(update, telegram_client.clone())): the task
\* owns the update and a copy of the client.
NewTask(update, off, k) ==
    [update |-> update, old |-> FALSE, index |-> k, st |-> "spawned",
     fetched |-> FALSE, getFile |-> 0, sendPhoto |-> 0, offset |-> off,
     chat_id |-> NoValue, reply_to |-> NoValue, file_id |-> NoValue,
     sendArgs |-> NoValue]

Init ==
    /\ tokenSet \in BOOLEAN
    /\ buildOk \in BOOLEAN
    /\ pc = "new"
    /\ offset = 0
    /\ tasks = <<>>
    /\ joins = <<>>
    /\ joinIdx = 1
    /\ roundLog = <<>>
    /\ haltCause = "none"
    /\ sent = 0
    /\ lastKind = "none"
    /\ lastOutcome = "none"
    /\ lastIds = <<>>
    /\ maxSeen = 0
    /\ inOrder = TRUE
    /\ allAbove = TRUE
    /\ dispatched = {}

\* ----------------------------------------------------------------- listen
\* Variant: a missing token or client is replaced by a default.
NewOrDefault ==
    /\ pc = "new"
    /\ pc' = "idle"
    /\ UNCHANGED <<offset, joins, joinIdx, roundLog, haltCause, tasks>>
    /\ UNCHANGED histVars
    /\ UNCHANGED envVars

\* TelegramClient::new (line 128): both expects panic inside listen.
New ==
    /\ pc = "new"
    /\ IF tokenSet /\ buildOk
       THEN pc' = "idle" /\ haltCause' = haltCause
       ELSE pc' = "panicked" /\ haltCause' = "new"
    /\ UNCHANGED <<offset, joins, joinIdx, roundLog, tasks>>
    /\ UNCHANGED histVars
    /\ UNCHANGED envVars

\* The runtime frees a task once it has finished and its JoinHandle is gone;
\* the model keeps the finished tasks of a round, its log entries and its
\* outcome until the next get_updates call. A task still running then stays,
\* marked as one of an earlier round.
StillRunning ==
    LET live == SelectSeq(tasks, LAMBDA t : t.st \in Running)
    IN  [i \in 1..Len(live) |-> [live[i] EXCEPT !.old = TRUE]]

\* get_updates, lines 67-76: the request goes out with self.offset.
GetUpdatesCall ==
    /\ pc = "idle"
    /\ pc' = "polling"
    /\ sent' = offset
    /\ tasks' = StillRunning
    /\ joins' = <<>>
    /\ joinIdx' = 1
    /\ roundLog' = <<>>
    /\ lastKind' = "none"
    /\ lastOutcome' = "pending"
    /\ lastIds' = <<>>
    /\ UNCHANGED <<offset, haltCause, maxSeen, inOrder, allAbove, dispatched>>
    /\ UNCHANGED envVars

\* Variant: a failed poll starts over from offset 0.
PollErrReset(kind, batch) ==
    /\ pc' = "idle"
    /\ roundLog' = <<PollEntry>>
    /\ lastKind' = kind
    /\ lastOutcome' = "err"
    /\ lastIds' = IdsOf(batch)
    /\ offset' = 0
    /\ UNCHANGED <<joins, joinIdx, haltCause, tasks>>
    /\ UNCHANGED <<sent, maxSeen, inOrder, allAbove, dispatched>>

\* Lines 132-135: get_updates returned Err; log and continue.
PollErr(kind, batch) ==
    /\ pc' = "idle"
    /\ roundLog' = <<PollEntry>>
    /\ lastKind' = kind
    /\ lastOutcome' = "err"
    /\ lastIds' = IdsOf(batch)
    /\ UNCHANGED <<offset, joins, joinIdx, haltCause, tasks>>
    /\ UNCHANGED <<sent, maxSeen, inOrder, allAbove, dispatched>>

\* A panic inside get_updates (lines 44, 46, 47, 77, 78) unwinds listen.
PollPanic(kind) ==
    /\ pc' = "panicked"
    /\ haltCause' = "poll"
    /\ lastKind' = kind
    /\ lastOutcome' = "panic"
    /\ UNCHANGED <<offset, joins, joinIdx, roundLog, tasks>>
    /\ UNCHANGED <<sent, lastIds, maxSeen, inOrder, allAbove, dispatched>>

\* Lines 77-80 and 136-145: the offset moves, one task per update is spawned
\* with a clone of the client, and the for loop over joins begins.
PollOk(kind, batch) ==
    LET off == NextOffset(offset, batch)
        kept == tasks
        spawned == [k \in 1..Len(batch) |-> NewTask(batch[k], off, k)]
    IN  /\ offset' = off
        /\ tasks' = kept \o spawned
        /\ joins' = [k \in 1..Len(batch) |-> Len(kept) + k]
        /\ joinIdx' = 1
        /\ pc' = IF Len(batch) = 0 THEN "idle" ELSE "joining"
        /\ roundLog' = <<>>
        /\ lastKind' = kind
        /\ lastOutcome' = IF Len(batch) = 0 THEN "empty" ELSE "batch"
        /\ lastIds' = IdsOf(batch)
        /\ maxSeen' = Larger(maxSeen, MaxOf(IdsOf(batch)))
        /\ inOrder' = (inOrder /\ Conforming(sent, IdsOf(batch)))
        /\ allAbove' = (allAbove /\ AtOrAbove(sent, IdsOf(batch)))
        /\ dispatched' = dispatched \cup {spawned[k].update.update_id : k \in 1..Len(batch)}
        /\ UNCHANGED <<haltCause, sent>>

\* Only a body with "ok" carries a result, and only a result that is an
\* array carries updates; the unwraps of lines 77-78 are reached with "ok": true.
ResultFlags(kind) == IF kind = "Ok" THEN BOOLEAN ELSE {TRUE}

ResultBatches(kind, resultIsArray) ==
    IF kind \in {"Ok", "OkFalse"} /\ resultIsArray THEN Batches ELSE {<<>>}

\* The answer to the getUpdates call arrives.
GetUpdatesReturn ==
    /\ pc = "polling"
    /\ \E kind \in RespKinds :
       \E resultIsArray \in ResultFlags(kind), lastHasId \in ResultFlags(kind) :
       \E batch \in ResultBatches(kind, resultIsArray) :
          /\ LET outcome == GetUpdatesOutcome(kind, resultIsArray, lastHasId, batch)
             IN  CASE outcome = "Err" -> PollErr(kind, batch)
                   [] outcome = "Panic" -> PollPanic(kind)
                   [] OTHER -> PollOk(kind, batch)
    /\ UNCHANGED envVars

\* Variant: the task's own error is dropped.
JoinOutcomeSilent(st) ==
    CASE st = "panic" -> "panic"
      [] OTHER -> "next"

\* Variant: the task's own error is unwrapped too.
JoinOutcomeUnwrap(st) ==
    CASE st = "panic" -> "panic"
      [] st = "err" -> "panic"
      [] OTHER -> "next"

\* What join.await.unwrap() makes of a finished task (lines 147-149).
JoinOutcome(st) ==
    CASE st = "panic" -> "panic"
      [] st = "err" -> "log"
      [] OTHER -> "next"

\* Variant: the await returns as soon as any task has finished.
JoinReadyFirstDone(t) ==
    t.st \in Finished \/ \E i \in 1..Len(tasks) : tasks[i].st \in Finished

\* Variant: the handle is not awaited.
JoinReadyNoWait(t) == TRUE

\* Variant: the handle is awaited only until the task has started.
JoinReadyStarted(t) == t.st # "spawned"

\* The task a JoinHandle awaits has completed.
JoinReady(t) == t.st \in Finished

\* Lines 146-150: one iteration of the for loop over joins.
Join ==
    /\ pc = "joining"
    /\ joinIdx <= Len(joins)
    /\ LET t == tasks[joins[joinIdx]]
           last == (joinIdx = Len(joins))
       IN  /\ JoinReady(t)
           /\ CASE JoinOutcome(t.st) = "panic" ->
                     /\ pc' = "panicked"
                     /\ haltCause' = "join"
                     /\ UNCHANGED <<joinIdx, roundLog>>
                [] JoinOutcome(t.st) = "log" ->
                     /\ roundLog' = Append(roundLog, TaskEntry(t.index))
                     /\ joinIdx' = joinIdx + 1
                     /\ pc' = IF last THEN "idle" ELSE "joining"
                     /\ UNCHANGED haltCause
                [] OTHER ->
                     /\ joinIdx' = joinIdx + 1
                     /\ pc' = IF last THEN "idle" ELSE "joining"
                     /\ UNCHANGED <<roundLog, haltCause>>
    /\ UNCHANGED <<offset, joins, tasks>>
    /\ UNCHANGED histVars
    /\ UNCHANGED envVars

\* main, line 198: the JoinError of listen is unwrapped, the runtime is
\* dropped and the process ends; no task runs after that.
Exit ==
    /\ pc = "panicked"
    /\ pc' = "exited"
    /\ UNCHANGED <<offset, joins, joinIdx, roundLog, haltCause, tasks>>
    /\ UNCHANGED histVars
    /\ UNCHANGED envVars

\* --------------------------------------------------------- process_update
SetTask(i, t) == tasks' = [tasks EXCEPT ![i] = t]

\* Variant: the client is shared, and a task acknowledges the first update
\* of the batch on it.
TaskFrameAck ==
    /\ offset' = tasks[1].update.update_id + 1
    /\ UNCHANGED <<pc, joins, joinIdx, roundLog, haltCause>>
    /\ UNCHANGED histVars
    /\ UNCHANGED envVars

TaskFrame ==
    /\ UNCHANGED loopVars
    /\ UNCHANGED histVars
    /\ UNCHANGED envVars

\* Variant: the updates of a batch are processed one after the other.
TaskStartSequential(i) ==
    /\ pc # "exited"
    /\ tasks[i].st = "spawned"
    /\ \A j \in 1..(i - 1) : tasks[j].st \in Finished
    /\ LET t == tasks[i]
           o == ProcessUpdateStart(t.update.shape)
       IN  CASE o = "Ok" -> SetTask(i, [t EXCEPT !.st = "ok"])
             [] o = "Panic" -> SetTask(i, [t EXCEPT !.st = "panic"])
             [] OTHER -> SetTask(i, [t EXCEPT !.st = "resolve", !.getFile = @ + 1,
                                              !.chat_id = ChatId(t.update),
                                              !.reply_to = MessageId(t.update),
                                              !.file_id = FileId(t.update)])
    /\ TaskFrame

\* Lines 112-120: the task runs up to its first await.
TaskStart(i) ==
    /\ pc # "exited"
    /\ tasks[i].st = "spawned"
    /\ LET t == tasks[i]
           o == ProcessUpdateStart(t.update.shape)
       IN  CASE o = "Ok" -> SetTask(i, [t EXCEPT !.st = "ok"])
             [] o = "Panic" -> SetTask(i, [t EXCEPT !.st = "panic"])
             [] OTHER -> SetTask(i, [t EXCEPT !.st = "resolve", !.getFile = @ + 1,
                                              !.chat_id = ChatId(t.update),
                                              !.reply_to = MessageId(t.update),
                                              !.file_id = FileId(t.update)])
    /\ TaskFrame

\* Lines 84-93: the getFile call is answered.
TaskResolved(i) ==
    /\ pc # "exited"
    /\ tasks[i].st = "resolve"
    /\ \E kind \in RespKinds, hasFilePath \in BOOLEAN :
          LET t == tasks[i]
              o == GetFileResolve(kind, hasFilePath)
          IN  CASE o = "Err" -> SetTask(i, [t EXCEPT !.st = "err"])
                [] o = "Panic" -> SetTask(i, [t EXCEPT !.st = "panic"])
                [] OTHER -> SetTask(i, [t EXCEPT !.st = "download"])
    /\ TaskFrame

\* Variant: chat and message are read from state the tasks share, which
\* holds those of the batch's last update.
AfterGetFileShared(t, o) ==
    IF o = "Ok"
    THEN [t EXCEPT !.st = "submit", !.fetched = TRUE, !.sendPhoto = @ + 1,
                   !.sendArgs = [photo |-> StoredFile(t.file_id),
                                 chat_id |-> ChatId(tasks[Len(tasks)].update),
                                 reply_to |-> MessageId(tasks[Len(tasks)].update)]]
    ELSE [t EXCEPT !.st = "err"]

\* Variant: the result of get_file is not looked at.
AfterGetFileIgnore(t, o) ==
    [t EXCEPT !.st = "submit", !.fetched = (o = "Ok"), !.sendPhoto = @ + 1,
              !.sendArgs = [photo |-> StoredFile(t.file_id),
                            chat_id |-> t.chat_id,
                            reply_to |-> t.reply_to]]

\* What process_update does with get_file's result (line 120-121): `?`
\* returns the error, otherwise send_photo is called.
AfterGetFile(t, o) ==
    IF o = "Ok"
    THEN [t EXCEPT !.st = "submit", !.fetched = TRUE, !.sendPhoto = @ + 1,
                   !.sendArgs = [photo |-> StoredFile(t.file_id),
                                 chat_id |-> t.chat_id,
                                 reply_to |-> t.reply_to]]
    ELSE [t EXCEPT !.st = "err"]

\* Lines 94-95 and 120-121: the download is answered.
TaskDownloaded(i) ==
    /\ pc # "exited"
    /\ tasks[i].st = "download"
    /\ \E kind \in DownloadKinds :
          SetTask(i, AfterGetFile(tasks[i], GetFileDownload(kind)))
    /\ TaskFrame

\* Lines 106-107 and 121-124: the sendPhoto call is answered.
TaskSubmitted(i) ==
    /\ pc # "exited"
    /\ tasks[i].st = "submit"
    /\ \E kind \in RespKinds :
          LET t == tasks[i]
              o == RequestToJson(kind)
          IN  CASE o = "Err" -> SetTask(i, [t EXCEPT !.st = "err"])
                [] o = "Panic" -> SetTask(i, [t EXCEPT !.st = "panic"])
                [] OTHER -> SetTask(i, [t EXCEPT !.st = "ok"])
    /\ TaskFrame

TaskMove(i) ==
    \/ TaskStart(i)
    \/ TaskResolved(i)
    \/ TaskDownloaded(i)
    \/ TaskSubmitted(i)

TaskStep == \E i \in 1..Len(tasks) : TaskMove(i)

Next ==
    \/ New
    \/ GetUpdatesCall
    \/ GetUpdatesReturn
    \/ Join
    \/ Exit
    \/ TaskStep

Spec == Init /\ [][Next]_vars

\* The tokio runtime polls every ready task, and every HTTP call comes back
\* within its timeout (lines 22-23 and 57-61): no enabled step waits forever.
FairSpec ==
    /\ Spec
    /\ WF_vars(New)
    /\ WF_vars(GetUpdatesCall)
    /\ WF_vars(GetUpdatesReturn)
    /\ WF_vars(Join)
    /\ WF_vars(Exit)
    /\ WF_vars(TaskStep)

TypeOK ==
    /\ pc \in {"new", "idle", "polling", "joining", "panicked", "exited"}
    /\ offset \in 0..(MaxId + 1)
    /\ \A i \in 1..Len(tasks) : tasks[i].st \in Running \cup Finished
\* ----------------------------------------------------------------- claims
TaskIdx == 1..Len(tasks)

\* The step that issues a getUpdates call.
IssuesCall == pc = "idle" /\ pc' = "polling"

Last(ids) == ids[Len(ids)]

InLog(entry) == \E n \in 1..Len(roundLog) : roundLog[n] = entry

\* C1 (as stated): the cursor of round K+1 is never below that of round K; it
\* is the same after a failed or empty round and otherwise one plus the
\* maximum identifier of round K's batch.
C1_CursorStepMax ==
    [][(IssuesCall /\ lastOutcome # "none") =>
          /\ sent' >= sent
          /\ (lastOutcome \in {"err", "empty"} => sent' = sent)
          /\ (lastOutcome = "batch" => sent' = MaxOf(lastIds) + 1)]_vars

\* C1 (amended): the cursor of round K+1 equals that of round K after a failed
\* or empty round and otherwise one plus the identifier of the last update of
\* round K's batch; when that batch is increasing with no identifier below
\* round K's cursor, this is one plus the batch maximum and above round K's
\* cursor.
C1_CursorStepLast ==
    [][(IssuesCall /\ lastOutcome # "none") =>
          /\ (lastOutcome \in {"err", "empty"} => sent' = sent)
          /\ (lastOutcome = "batch" => sent' = Last(lastIds) + 1)
          /\ (lastOutcome = "batch" /\ Conforming(sent, lastIds) =>
                 sent' = MaxOf(lastIds) + 1 /\ sent' > sent)]_vars

\* A later call went out with a cursor that a batch has moved.
C1_Witness == pc = "polling" /\ sent > 1 /\ maxSeen > 0

\* C2: while a getUpdates call is being issued or is out, no spawned task is
\* still running: every task of the rounds before has finished, with
\* success or failure.
C2_RoundBarrier ==
    pc \in {"idle", "polling"} => \A i \in TaskIdx : tasks[i].st \in Finished

\* The loop is about to poll again after a round whose tasks ended both ways.
C2_Witness ==
    /\ pc = "idle"
    /\ \E i, j \in TaskIdx : tasks[i].st = "err" /\ tasks[j].st = "ok"
    /\ joinIdx = Len(joins) + 1

SomeErr == \E i \in TaskIdx : tasks[i].st = "err"

\* C3: a task that ends with an error stops nothing: the loop halts at a join
\* only on a panicked task, never on an error; the other tasks of the batch
\* stay able to run and have all finished when the round ends; and the loop
\* then polls again.
C3_Isolation ==
    /\ haltCause = "join" => tasks[joins[joinIdx]].st = "panic"
    /\ SomeErr =>
          /\ \A i \in TaskIdx :
                (tasks[i].st \in Running /\ pc # "exited") => ENABLED TaskMove(i)
          /\ pc = "idle" =>
                /\ \A i \in TaskIdx : tasks[i].st \in Finished
                /\ joinIdx = Len(joins) + 1
                /\ ENABLED GetUpdatesCall

\* A round is over in which the first task failed with an error and a later
\* one went through to a successful submit.
C3_Witness ==
    /\ pc = "idle"
    /\ Len(tasks) >= 2
    /\ tasks[1].st = "err"
    /\ InLog(TaskEntry(1))
    /\ \E j \in TaskIdx : j > 1 /\ tasks[j].st = "ok" /\ tasks[j].sendPhoto = 1

\* C4 (as stated): whatever an update holds and however its task ends, the
\* loop is still running afterwards: no join ever halts it.
C4_NoTaskHaltsLoop == haltCause # "join"

Failed == lastOutcome = "err"

\* C5: after a getUpdates that failed (transport, HTTP status, unreadable
\* body or "ok": false, with or without updates in the body) the offset is
\* the one that was sent, no task exists, the error is the one log entry, and
\* the loop's next step is a getUpdates call with that same offset.
C5_FailedPoll ==
    [][/\ (pc = "polling" /\ lastKind' \in {"SendErr", "StatusErr", "NotJson", "OkFalse"}) =>
             /\ Failed'
             /\ pc' = "idle"
             /\ offset' = sent
             /\ tasks' = <<>>
             /\ roundLog' = <<PollEntry>>
       /\ (Failed /\ pc' # pc) => (pc' = "polling" /\ sent' = sent)]_vars

\* The poll was answered "ok": false with updates in the body, and the loop
\* is back at the call with the offset it had sent.
C5_Witness ==
    /\ lastKind = "OkFalse"
    /\ Len(lastIds) > 0
    /\ pc = "idle"
    /\ sent > 0
    /\ offset = sent

\* C6: after a getUpdates that returned a non-empty batch the offset is the
\* identifier of the batch's last update plus one.
C6_LastPlusOne ==
    lastOutcome = "batch" => offset = Last(lastIds) + 1

\* A batch whose last identifier is not its highest, received at a cursor
\* that was already above it.
C6_Witness ==
    /\ lastOutcome = "batch"
    /\ Len(lastIds) >= 2
    /\ lastIds[1] > Last(lastIds)
    /\ sent > Last(lastIds) + 1
    /\ offset = Last(lastIds) + 1

\* C7 (as stated): once an update has been received, the offset is one plus
\* the highest identifier received so far.
C7_HighestEver == maxSeen > 0 => offset = maxSeen + 1

\* C7 (amended): as long as every batch received so far was increasing with
\* no identifier below the cursor it answered, the offset is one plus the
\* highest identifier received so far and no cursor sent was above it.
C7_HighestEverInOrder ==
    (maxSeen > 0 /\ inOrder) => (offset = maxSeen + 1 /\ sent <= offset)

\* A call is out with one plus the highest identifier there is.
C7_Witness ==
    /\ pc = "polling"
    /\ inOrder
    /\ maxSeen = MaxId
    /\ sent = maxSeen + 1

Empty == lastOutcome = "empty"

\* C8: after a getUpdates that returned an empty batch the offset is the one
\* that was sent, no task exists, nothing is logged, and the loop's next step
\* is a getUpdates call with that same offset.
C8_EmptyPoll ==
    [][/\ Empty' =>
             /\ pc' = "idle"
             /\ offset' = sent'
             /\ tasks' = <<>>
             /\ roundLog' = <<>>
       /\ (Empty /\ pc' # pc) => (pc' = "polling" /\ sent' = sent)]_vars

\* An empty batch came back at a cursor that an earlier batch had moved.
C8_Witness == Empty /\ pc = "idle" /\ sent > 0 /\ offset = sent

NoPayload(t) == t.update.shape \in {"NoMessage", "NoPhoto"}

\* C9: the task of an update without a message, or with a message without a
\* photo list, calls neither get_file nor send_photo and ends with Ok.
C9_NoOp ==
    \A i \in TaskIdx :
        NoPayload(tasks[i]) =>
            /\ tasks[i].getFile = 0
            /\ tasks[i].sendPhoto = 0
            /\ tasks[i].st \in {"spawned", "ok"}

\* Both kinds of update without a payload have run and been collected.
C9_Witness ==
    /\ pc = "idle"
    /\ \E i, j \in TaskIdx :
          /\ tasks[i].update.shape = "NoMessage" /\ tasks[i].st = "ok"
          /\ tasks[j].update.shape = "NoPhoto" /\ tasks[j].st = "ok"

\* C10: send_photo is called at most once per task and only after get_file
\* returned the file; a task whose get_file returned an error has called no
\* send_photo and has ended with an error, and that error is in the log once
\* the loop has collected the task.
C10_SubmitAfterFetch ==
    /\ \A i \in TaskIdx :
          LET t == tasks[i]
          IN  /\ t.sendPhoto <= 1
              /\ t.sendPhoto > 0 => (t.fetched /\ t.getFile = 1)
              /\ t.st = "submit" => t.sendPhoto = 1
              /\ (t.getFile = 1 /\ ~t.fetched /\ t.st \notin {"resolve", "download", "panic"}) =>
                    (t.st = "err" /\ t.sendPhoto = 0)
    /\ \A k \in 1..Len(joins) :
          (k < joinIdx /\ tasks[joins[k]].st = "err") =>
              InLog(TaskEntry(tasks[joins[k]].index))

\* One task failed in get_file and was logged without a submit, another
\* fetched its file and submitted it.
C10_Witness ==
    /\ pc = "idle"
    /\ \E i, j \in TaskIdx :
          /\ tasks[i].st = "err" /\ tasks[i].getFile = 1 /\ ~tasks[i].fetched
          /\ tasks[i].sendPhoto = 0 /\ InLog(TaskEntry(tasks[i].index))
          /\ tasks[j].fetched /\ tasks[j].sendPhoto = 1 /\ tasks[j].st = "ok"
Started == tokenSet /\ buildOk

\* C11 (as stated): once the client is built, under fair scheduling and with
\* every call returning, getUpdates is issued again and again, whatever the
\* rounds and their tasks come back with.
C11_PollsForever == Started => []<>(pc = "polling")

\* C12 (as stated): whatever the remote side answers to getUpdates, the call
\* gives the loop a batch or an error value; it never panics.
C12_PollNeverPanics == lastOutcome # "panic" /\ haltCause # "poll"

\* C13: without the token (or without the HTTP client) listen panics in
\* TelegramClient::new: no getUpdates call is ever issued, no task is ever
\* spawned, and nothing is logged and retried as a poll error.
C13_StartupAbort ==
    ~Started =>
        /\ pc \in {"new", "panicked", "exited"}
        /\ haltCause \in {"none", "new"}
        /\ lastOutcome = "none"
        /\ lastKind = "none"
        /\ tasks = <<>>
        /\ joins = <<>>
        /\ roundLog = <<>>
        /\ offset = 0

\* The token is missing and the process has ended in TelegramClient::new.
C13_Witness == ~tokenSet /\ pc = "exited" /\ haltCause = "new"
\* A step of some task: the loop stays where it is and a task record changes.
IsTaskStep == tasks' # tasks /\ Len(tasks') = Len(tasks) /\ pc' = pc

\* C14: the offset of the loop's client changes only in the step that
\* receives a non-empty batch; no step of a task changes it, and a task's own
\* copy of the client keeps the offset it was cloned with.
C14_CursorOwnedByLoop ==
    [][/\ offset' # offset =>
             (pc = "polling" /\ lastKind' = "Ok" /\ lastOutcome' = "batch")
       /\ IsTaskStep =>
             /\ offset' = offset
             /\ sent' = sent
             /\ \A i \in TaskIdx : tasks'[i].offset = tasks[i].offset
       /\ (pc = "polling" /\ lastOutcome' = "batch") =>
             \A i \in 1..Len(tasks') : tasks'[i].offset = offset']_vars

\* Tasks of a batch have fetched, submitted and failed, and the offset is
\* still the one the batch gave.
C14_Witness ==
    /\ pc = "joining"
    /\ joinIdx = 1
    /\ \E i, j \in TaskIdx : tasks[i].st = "ok" /\ tasks[i].sendPhoto = 1 /\ tasks[j].st = "err"
    /\ offset = Last(lastIds) + 1
    /\ \A i \in TaskIdx : tasks[i].offset = offset

\* The tasks that are running; none is once the process has ended.
RunningTasks == {i \in TaskIdx : tasks[i].st \in Running /\ pc # "exited"}

\* C15 (as stated): there is no backpressure: the loop goes on to the next
\* round without waiting for a task that is still running.
C15_LoopNeverWaits ==
    (pc = "joining" /\ tasks[joins[joinIdx]].st \in Running) => ENABLED Join

\* C15 (amended): the loop waits at the join for every task of the round, so
\* no task of an earlier round is running beside the tasks of a later one,
\* and the running tasks are never more than the latest batch has updates.
C15_OneRoundAtATime ==
    /\ \A i \in TaskIdx : ~tasks[i].old
    /\ Cardinality(RunningTasks) <= Len(joins)
    /\ RunningTasks # {} => (pc \in {"joining", "panicked"} /\ Len(tasks) = Len(lastIds))

\* In a later round the loop is held at the first join while all the tasks
\* of the batch are running.
C15_Witness ==
    /\ pc = "joining"
    /\ sent > 0
    /\ joinIdx = 1
    /\ Len(tasks) >= 2
    /\ RunningTasks = TaskIdx
    /\ ~ENABLED Join
\* The step that receives a non-empty batch.
ReceivesBatch == pc = "polling" /\ lastOutcome' = "batch"

\* In this step every update of the batch received gets one new task, and
\* none of its identifiers was handed to a task before or twice now.
DispatchedOnce ==
    /\ Len(tasks') = Len(tasks) + Len(lastIds')
    /\ \A k \in 1..Len(lastIds') :
          /\ tasks'[Len(tasks) + k].update.update_id = lastIds'[k]
          /\ tasks'[Len(tasks) + k].st = "spawned"
          /\ lastIds'[k] \notin dispatched
          /\ \A l \in 1..Len(lastIds') : l # k => lastIds'[l] # lastIds'[k]

\* Tasks come into being in no other step, so no update is handed out again
\* after its task has failed.
SpawnsOnlyOnBatch == Len(tasks') > Len(tasks) => ReceivesBatch

\* In this step no identifier of the batch received was handed to a task in
\* an earlier round.
NotDispatchedBefore ==
    \A k \in 1..Len(lastIds') : lastIds'[k] \notin dispatched

\* C16 (as stated): as long as the remote side returns no identifier below
\* the cursor it was given, every update received is handed to one task, once
\* in the whole run; in particular none that was handed out in an earlier
\* round is handed out again.
C16_OnceIfAbove ==
    [][/\ (ReceivesBatch /\ allAbove') => NotDispatchedBefore
       /\ SpawnsOnlyOnBatch]_vars

\* C16 (amended): as long as the remote side returns every batch in strictly
\* increasing order with no identifier below the cursor it was given, every
\* update received is handed to one task, once in the whole run.
C16_OnceIfInOrder ==
    [][/\ (ReceivesBatch /\ inOrder') => DispatchedOnce
       /\ SpawnsOnlyOnBatch]_vars

\* A later batch is being processed, all batches were in order, and more
\* identifiers have been handed out than this batch holds.
C16_Witness ==
    /\ pc = "joining"
    /\ inOrder
    /\ sent > 0
    /\ lastOutcome = "batch"
    /\ Cardinality(dispatched) > Len(lastIds)
    /\ Len(tasks) = Len(lastIds)
\* C17: when the loop starts to wait, every update of the batch has its task,
\* and a task that is spawned can always start, whatever the other tasks of
\* the batch are doing.
C17_FanOut ==
    /\ pc = "joining" => (Len(joins) = Len(lastIds) /\ Len(tasks) = Len(lastIds))
    /\ \A i \in TaskIdx :
          (tasks[i].st = "spawned" /\ pc # "exited") => ENABLED TaskStart(i)

\* Two tasks of one batch are in progress at once, the second ahead of the
\* first, before the loop has collected anything.
C17_Witness ==
    /\ pc = "joining"
    /\ joinIdx = 1
    /\ Len(tasks) >= 2
    /\ tasks[1].st = "resolve"
    /\ tasks[2].st = "submit"

\* C18: a task calls send_photo at most once, and the call carries the stored
\* file of the task's own update together with that update's chat and
\* message, never those of another update.
C18_OwnData ==
    \A i \in TaskIdx :
        LET t == tasks[i]
        IN  /\ t.sendPhoto <= 1
            /\ t.sendPhoto = 0 => t.sendArgs = NoValue
            /\ t.sendPhoto = 1 =>
                  t.sendArgs = [photo |-> StoredFile(FileId(t.update)),
                                chat_id |-> ChatId(t.update),
                                reply_to |-> MessageId(t.update)]
            /\ \A j \in TaskIdx :
                  (tasks[j].sendPhoto = 1 /\ t.sendPhoto = 1
                   /\ tasks[j].update.update_id # t.update.update_id) =>
                      /\ tasks[j].sendArgs.photo # t.sendArgs.photo
                      /\ tasks[j].sendArgs.chat_id # t.sendArgs.chat_id
                      /\ tasks[j].sendArgs.reply_to # t.sendArgs.reply_to

\* Two different updates of one batch have both been submitted, the second
\* one first.
C18_Witness ==
    /\ Len(tasks) >= 2
    /\ tasks[1].update.update_id # tasks[2].update.update_id
    /\ tasks[1].st = "submit"
    /\ tasks[2].st = "ok"
    /\ tasks[2].sendPhoto = 1

CountLog(entry) == Cardinality({n \in 1..Len(roundLog) : roundLog[n] = entry})

ErrTasks == {i \in TaskIdx : tasks[i].st = "err"}

\* C19: when the loop is about to issue the next getUpdates after a batch,
\* every task of the round that returned an error has exactly one log entry,
\* a task that returned Ok has none and there is no other entry; while the
\* loop is still collecting, the tasks not yet collected have none; and at no
\* time has a task more than one entry or a task without an error any.
C19_LoggedBeforeNextPoll ==
    /\ \A i \in TaskIdx :
          CountLog(TaskEntry(tasks[i].index)) <= IF tasks[i].st = "err" THEN 1 ELSE 0
    /\ (pc = "idle" /\ lastOutcome = "batch") =>
          /\ joinIdx = Len(joins) + 1
          /\ Len(roundLog) = Cardinality(ErrTasks)
          /\ \A i \in TaskIdx :
                CountLog(TaskEntry(tasks[i].index)) = IF tasks[i].st = "err" THEN 1 ELSE 0
    /\ pc = "joining" =>
          \A k \in 1..Len(joins) :
              CountLog(TaskEntry(tasks[joins[k]].index)) =
                  IF k < joinIdx /\ tasks[joins[k]].st = "err" THEN 1 ELSE 0

\* A round is over in which every task failed, and each failure is logged.
C19_Witness ==
    /\ pc = "idle"
    /\ Len(tasks) >= 2
    /\ ErrTasks = TaskIdx
    /\ Len(roundLog) = Len(tasks)

\* C20: the error of the j-th task of a batch is in the log only when the
\* tasks of all earlier updates of the batch have finished, and the entries
\* of a round stand in the order of their updates in the batch.
C20_BatchOrder ==
    /\ \A k \in 1..Len(joins) :
          InLog(TaskEntry(tasks[joins[k]].index)) =>
              \A l \in 1..(k - 1) : tasks[joins[l]].st \in Finished
    /\ \A m, n \in 1..Len(roundLog) : m < n => roundLog[m][2] < roundLog[n][2]

\* The second task has failed before the first has finished, and its error
\* is not logged yet.
C20_Witness ==
    /\ pc = "joining"
    /\ joinIdx = 1
    /\ Len(tasks) >= 2
    /\ tasks[1].st \in Running
    /\ tasks[2].st = "err"
    /\ roundLog = <<>>
====
